---------------------------- MODULE Spec2Model ----------------------------
(***************************************************************************)
(* Cart-pole dynamics model of ilqr/examples/cartpole.py.                  *)
(*                                                                         *)
(* Numbers.  The program computes on floating-point reals.  Here a number  *)
(* is an exact rational <<n, d>> in lowest terms with d > 0, so that every *)
(* arithmetic step of the source is carried out as written and equalities  *)
(* are exact.                                                              *)
(*                                                                         *)
(* Angles.  An angle is measured in quarter turns: HalfTurn = 2 stands for *)
(* pi and FullTurn = 4 for 2*pi.  Sin and Cos are computed as the exact    *)
(* rational point of the unit circle: whole quarter turns land on the axes *)
(* and the fraction inside a quadrant is carried by the half-angle-tangent *)
(* parametrisation.  Sin and Cos are periodic with period FullTurn, take   *)
(* the signs of the true functions in each quadrant and satisfy            *)
(* sin^2 + cos^2 = 1 exactly; Atan2 returns the principal angle in         *)
(* (-HalfTurn, HalfTurn] of the direction (cos, sin).                      *)
(***************************************************************************)
EXTENDS Integers, Sequences, FiniteSets, TLC

VARIABLES
    model,   \* the constructed CartpoleDynamics instance
    x,       \* augmented state of the rollout the caller is running
    k,       \* number of transition steps of the rollout so far
    last,    \* the last evaluation of the transition function
    call     \* the last call of augment_state / reduce_state

vars == <<model, x, k, last, call>>

---------------------------------------------------------------------------
(* Rational arithmetic: the numeric layer's +, -, *, /, ** 2 and <.        *)

RECURSIVE Gcd(_, _)
Gcd(a, b) == IF b = 0 THEN a ELSE Gcd(b, a % b)

IAbs(n) == IF n < 0 THEN -n ELSE n

Norm(n, d) ==
    LET s == IF d < 0 THEN -1 ELSE 1
        g == Gcd(IAbs(n), IAbs(d))
    IN  <<(s * n) \div g, (s * d) \div g>>

R(n) == <<n, 1>>
Q(n, d) == Norm(n, d)

RAdd(a, b) ==
    LET g == Gcd(a[2], b[2])
    IN  Norm(a[1] * (b[2] \div g) + b[1] * (a[2] \div g), (a[2] \div g) * b[2])
RNeg(a) == <<-a[1], a[2]>>
RSub(a, b) == RAdd(a, RNeg(b))
RMul(a, b) ==
    LET g1 == Gcd(IAbs(a[1]), b[2])
        g2 == Gcd(IAbs(b[1]), a[2])
    IN  Norm((a[1] \div g1) * (b[1] \div g2), (a[2] \div g2) * (b[2] \div g1))
RDiv(a, b) == RMul(a, Norm(b[2], b[1]))
RSq(a) == RMul(a, a)
RLt(a, b) == a[1] * b[2] < b[1] * a[2]
RLe(a, b) == a[1] * b[2] <= b[1] * a[2]
RAbs(a) == <<IAbs(a[1]), a[2]>>
RFloor(a) == a[1] \div a[2]
IsInt(a) == a[2] = 1

ISqrt(n) == CHOOSE r \in 0..n : r * r <= n /\ (r + 1) * (r + 1) > n
\* Square root; exact on the squares of rationals.
RSqrt(a) == Norm(ISqrt(a[1]), ISqrt(a[2]))

---------------------------------------------------------------------------
(* Trigonometry of the numeric layer, in quarter turns.                    *)

HalfTurn == 2
FullTurn == 4

Quadrant(t) == RFloor(t) % FullTurn
Frac(t) == RSub(t, R(RFloor(t)))

\* The point of the first quadrant at fraction h of a quarter turn.
BaseCos(h) == RDiv(RSub(R(1), RSq(h)), RAdd(R(1), RSq(h)))
BaseSin(h) == RDiv(RMul(R(2), h), RAdd(R(1), RSq(h)))

Sin(t) ==
    LET q == Quadrant(t)
        h == Frac(t)
    IN  CASE q = 0 -> BaseSin(h)
          [] q = 1 -> BaseCos(h)
          [] q = 2 -> RNeg(BaseSin(h))
          [] q = 3 -> RNeg(BaseCos(h))

Cos(t) ==
    LET q == Quadrant(t)
        h == Frac(t)
    IN  CASE q = 0 -> BaseCos(h)
          [] q = 1 -> RNeg(BaseSin(h))
          [] q = 2 -> RNeg(BaseCos(h))
          [] q = 3 -> BaseSin(h)

\* Atan2 with the angle reported in [0, FullTurn) instead.
Atan2_unsigned(s, c) ==
    LET zero == R(0)
        r == RSqrt(RAdd(RSq(s), RSq(c)))
        q == CASE s = zero /\ c = zero -> 0
               [] RLe(zero, s) /\ RLt(zero, c) -> 0
               [] RLt(zero, s) /\ RLe(c, zero) -> 1
               [] RLe(s, zero) /\ RLt(c, zero) -> 2
               [] RLt(s, zero) /\ RLe(zero, c) -> 3
        c0 == CASE q = 0 -> c [] q = 1 -> s [] q = 2 -> RNeg(c) [] q = 3 -> RNeg(s)
        s0 == CASE q = 0 -> s [] q = 1 -> RNeg(c) [] q = 2 -> RNeg(s) [] q = 3 -> c
        h == IF r = zero THEN zero ELSE RDiv(s0, RAdd(r, c0))
    IN  RAdd(R(q), h)

\* Two-argument arctangent of (s, c): the angle in (-HalfTurn, HalfTurn] of
\* the direction (c, s); arctan2(0, 0) = 0.
Atan2(s, c) ==
    LET zero == R(0)
        r == RSqrt(RAdd(RSq(s), RSq(c)))
        \* quadrant of the direction, and the direction turned back into
        \* the first quadrant
        q == CASE s = zero /\ c = zero -> 0
               [] RLe(zero, s) /\ RLt(zero, c) -> 0
               [] RLt(zero, s) /\ RLe(c, zero) -> 1
               [] RLe(s, zero) /\ RLt(c, zero) -> 2
               [] RLt(s, zero) /\ RLe(zero, c) -> 3
        c0 == CASE q = 0 -> c [] q = 1 -> s [] q = 2 -> RNeg(c) [] q = 3 -> RNeg(s)
        s0 == CASE q = 0 -> s [] q = 1 -> RNeg(c) [] q = 2 -> RNeg(s) [] q = 3 -> c
        h == IF r = zero THEN zero ELSE RDiv(s0, RAdd(r, c0))
        t == RAdd(R(q), h)
    IN  IF RLt(R(HalfTurn), t) THEN RSub(t, R(FullTurn)) ELSE t

---------------------------------------------------------------------------
(* Arrays of the numeric layer.  A 1-D array of length n has shape <<n>>   *)
(* and data a sequence of n numbers; a 2-D array of n rows and m columns   *)
(* has shape <<n, m>> and data a sequence of n rows of m numbers.          *)

Vector(d) == [shape |-> <<Len(d)>>, data |-> d]
Matrix(rows, m) == [shape |-> <<Len(rows), m>>, data |-> rows]
ndim(a) == Len(a.shape)

\* What a call gives back: an array, or the exception it raised.
Returned(a) == [raised |-> "none", value |-> a]
Raised(e) == [raised |-> e, value |-> Vector(<<>>)]

\* Column that repeats the first row's entry in every row.
Column_first(state, j) == [i \in 1..state.shape[1] |-> state.data[1][j + 1]]

\* state[:, j].reshape(-1, 1) with the 0-based column j: one entry per row.
Column(state, j) == [i \in 1..state.shape[1] |-> state.data[i][j + 1]]

\* np.hstack of 0-d values: a 1-D array.
HStackScalars(parts) == Vector(parts)

\* np.hstack of n x 1 columns: row i holds entry i of every column.
HStackColumns(n, cols) ==
    Matrix([i \in 1..n |-> [j \in 1..Len(cols) |-> cols[j][i]]], Len(cols))

---------------------------------------------------------------------------
(* CartpoleDynamics.augment_state                                          *)
(*   [x, x', theta, theta'] -> [x, x', sin(theta), cos(theta), theta']     *)

augment_state(state) ==
    IF ndim(state) = 1
    THEN \* x, x_dot, theta, theta_dot = state
         IF state.shape[1] # 4
         THEN Raised("ValueError")
         ELSE LET x_ == state.data[1]
                  x_dot == state.data[2]
                  theta == state.data[3]
                  theta_dot == state.data[4]
              IN  Returned(HStackScalars(
                      <<x_, x_dot, Sin(theta), Cos(theta), theta_dot>>))
    ELSE \* state[:, 0] .. state[:, 3]
         IF state.shape[2] <= 3
         THEN Raised("IndexError")
         ELSE LET n == state.shape[1]
                  x_ == Column(state, 0)
                  x_dot == Column(state, 1)
                  theta == Column(state, 2)
                  theta_dot == Column(state, 3)
              IN  Returned(HStackColumns(n,
                      <<x_, x_dot,
                        [i \in 1..n |-> Sin(theta[i])],
                        [i \in 1..n |-> Cos(theta[i])],
                        theta_dot>>))

\* reduce_state with the arguments of the arctangent exchanged.
reduce_state_swapped(state) ==
    IF ndim(state) = 1
    THEN IF state.shape[1] # 5
         THEN Raised("ValueError")
         ELSE Returned(HStackScalars(
                  <<state.data[1], state.data[2],
                    Atan2(state.data[4], state.data[3]), state.data[5]>>))
    ELSE IF state.shape[2] <= 4
         THEN Raised("IndexError")
         ELSE LET n == state.shape[1]
              IN  Returned(HStackColumns(n,
                      <<Column(state, 0), Column(state, 1),
                        [i \in 1..n |-> Atan2(state.data[i][4], state.data[i][3])],
                        Column(state, 4)>>))

(* CartpoleDynamics.reduce_state                                           *)
(*   [x, x', sin(theta), cos(theta), theta'] -> [x, x', theta, theta']     *)

reduce_state(state) ==
    IF ndim(state) = 1
    THEN \* x, x_dot, sin_theta, cos_theta, theta_dot = state
         IF state.shape[1] # 5
         THEN Raised("ValueError")
         ELSE LET x_ == state.data[1]
                  x_dot == state.data[2]
                  sin_theta == state.data[3]
                  cos_theta == state.data[4]
                  theta_dot == state.data[5]
                  theta == Atan2(sin_theta, cos_theta)
              IN  Returned(HStackScalars(<<x_, x_dot, theta, theta_dot>>))
    ELSE \* state[:, 0] .. state[:, 4]
         IF state.shape[2] <= 4
         THEN Raised("IndexError")
         ELSE LET n == state.shape[1]
                  x_ == Column(state, 0)
                  x_dot == Column(state, 1)
                  sin_theta == Column(state, 2)
                  cos_theta == Column(state, 3)
                  theta_dot == Column(state, 4)
                  theta == [i \in 1..n |-> Atan2(sin_theta[i], cos_theta[i])]
              IN  Returned(HStackColumns(n, <<x_, x_dot, theta, theta_dot>>))

---------------------------------------------------------------------------
(* The control-squashing collaborator, ilqr.dynamics.tensor_constrain:     *)
(* a smooth, strictly increasing saturation of the raw control into the    *)
(* interval spanned by the bounds, centred on their mean.                  *)

\* A smooth strictly increasing map of the reals onto (-1, 1).
Squash(u) == RDiv(u, RAdd(R(1), RAbs(u)))

tensor_constrain(u, min_bounds, max_bounds) ==
    LET diff == RDiv(RSub(max_bounds, min_bounds), R(2))
        mean == RDiv(RAdd(max_bounds, min_bounds), R(2))
    IN  RAdd(RMul(diff, Squash(u)), mean)

---------------------------------------------------------------------------
(* CartpoleDynamics.__init__                                               *)

\* The fields the constructor keeps, and the parameters captured by the
\* transition expression it builds.
CartpoleDynamics(dt, constrain, min_bounds, max_bounds, mc, mp, l, g) ==
    [constrained |-> constrain,
     min_bounds  |-> min_bounds,
     max_bounds  |-> max_bounds,
     dt |-> dt, mc |-> mc, mp |-> mp, l |-> l, g |-> g]

\* "Constrain action space": the force F the dynamics use for raw control u.
Force(m, u) ==
    IF m.constrained
    THEN tensor_constrain(u, m.min_bounds, m.max_bounds)
    ELSE u

\* Eq. (23), first line: temp.
temp(m, s, F) ==
    LET sin_theta == s[3]
        theta_dot == s[5]
    IN  RDiv(RAdd(F, RMul(RMul(RMul(m.mp, m.l), RSq(theta_dot)), sin_theta)),
             RAdd(m.mc, m.mp))

\* theta_dot_dot with gravity acting along cos_theta.
theta_dot_dot_cos(m, s, F) ==
    LET sin_theta == s[3]
        cos_theta == s[4]
        numerator == RSub(RMul(m.g, cos_theta), RMul(cos_theta, temp(m, s, F)))
        denominator == RMul(m.l,
                            RSub(Q(4, 3),
                                 RDiv(RMul(m.mp, RSq(cos_theta)), RAdd(m.mc, m.mp))))
    IN  RDiv(numerator, denominator)

\* Eq. (23): the angular acceleration.
theta_dot_dot(m, s, F) ==
    LET sin_theta == s[3]
        cos_theta == s[4]
        numerator == RSub(RMul(m.g, sin_theta), RMul(cos_theta, temp(m, s, F)))
        denominator == RMul(m.l,
                            RSub(Q(4, 3),
                                 RDiv(RMul(m.mp, RSq(cos_theta)), RAdd(m.mc, m.mp))))
    IN  RDiv(numerator, denominator)

\* x_dot_dot with the pole's reaction added instead of subtracted.
x_dot_dot_plus(m, s, F) ==
    LET cos_theta == s[4]
    IN  RAdd(temp(m, s, F),
             RDiv(RMul(RMul(RMul(m.mp, m.l), theta_dot_dot(m, s, F)), cos_theta),
                  RAdd(m.mc, m.mp)))

\* Eq. (24): the linear acceleration.
x_dot_dot(m, s, F) ==
    LET cos_theta == s[4]
    IN  RSub(temp(m, s, F),
             RDiv(RMul(RMul(RMul(m.mp, m.l), theta_dot_dot(m, s, F)), cos_theta),
                  RAdd(m.mc, m.mp)))

\* "Deaugment state for dynamics": the angle after the step.
next_theta(m, s) ==
    LET sin_theta == s[3]
        cos_theta == s[4]
        theta_dot == s[5]
        theta == Atan2(sin_theta, cos_theta)
    IN  RAdd(theta, RMul(theta_dot, m.dt))

\* f with the cosine taken of the angle before the step.
f_stale_cos(m, s, u) ==
    LET F == Force(m, u)
    IN  <<RAdd(s[1], RMul(s[2], m.dt)),
          RAdd(s[2], RMul(x_dot_dot(m, s, F), m.dt)),
          Sin(next_theta(m, s)),
          Cos(Atan2(s[3], s[4])),
          RAdd(s[5], RMul(theta_dot_dot(m, s, F), m.dt))>>

\* f with the position advanced by the updated velocity (semi-implicit Euler).
f_semi_implicit(m, s, u) ==
    LET F == Force(m, u)
        next_x_dot == RAdd(s[2], RMul(x_dot_dot(m, s, F), m.dt))
    IN  <<RAdd(s[1], RMul(next_x_dot, m.dt)),
          next_x_dot,
          Sin(next_theta(m, s)),
          Cos(next_theta(m, s)),
          RAdd(s[5], RMul(theta_dot_dot(m, s, F), m.dt))>>

\* The transition expression f, evaluated at augmented state s and control u.
f(m, s, u) ==
    LET x_ == s[1]
        x_dot == s[2]
        theta_dot == s[5]
        F == Force(m, u)
    IN  <<RAdd(x_, RMul(x_dot, m.dt)),
          RAdd(x_dot, RMul(x_dot_dot(m, s, F), m.dt)),
          Sin(next_theta(m, s)),
          Cos(next_theta(m, s)),
          RAdd(theta_dot, RMul(theta_dot_dot(m, s, F), m.dt))>>

---------------------------------------------------------------------------
(* Bounds and inputs.                                                      *)

MaxSteps == 2    \* longest rollout
MaxBatch == 2    \* most rows of a batch

\* Constructor arguments.  The masses, length, gravity and time steps are
\* physically valid (all positive); with them a pole that starts on a whole
\* number of quarter turns per step stays on one, which keeps the numbers
\* of a rollout small.  The control bounds are whatever a caller may pass:
\* symmetric, one-sided, reversed and equal.
Dts == {R(1), R(2)}
Masses == {<<Q(1, 5), Q(1, 5)>>, <<Q(1, 6), Q(1, 3)>>}
Lengths == {R(3)}
Gravities == {R(4)}
BoundPairs == {<<R(-2), R(2)>>, <<R(0), R(4)>>, <<R(2), R(6)>>,
               <<R(2), R(-2)>>, <<R(2), R(2)>>}

Models ==
    {CartpoleDynamics(dt, c, b[1], b[2], ms[1], ms[2], l, g) :
        dt \in Dts, c \in BOOLEAN, b \in BoundPairs, ms \in Masses,
        l \in Lengths, g \in Gravities}

\* Reduced states a rollout starts from, and the controls applied along it.
StartStates ==
    {Vector(<<R(0), R(1), th, thd>>) :
        th \in {R(-1), R(0), R(1), R(2)}, thd \in {R(-1), R(0), R(1)}}
StepControls == {R(-1), R(0), R(1)}

\* Augmented states and controls of single evaluations: points on the unit
\* circle (on and off the axes) and points off it.
EvalDirections ==
    {<<R(0), R(1)>>, <<R(1), R(0)>>, <<R(0), R(-1)>>, <<R(-1), R(0)>>,
     <<Q(3, 5), Q(4, 5)>>, <<Q(-4, 5), Q(3, 5)>>,
     <<R(0), R(2)>>, <<R(2), R(0)>>, <<R(0), R(0)>>, <<R(3), R(-4)>>}
EvalStates ==
    {<<px, xd, d[1], d[2], thd>> :
        px \in {R(0), Q(-3, 2)}, xd \in {R(0), R(2)},
        d \in EvalDirections, thd \in {R(0), Q(-1, 2)}}
EvalControls == {R(-100), R(-1), R(0), R(2), R(100)}

\* Arguments of the converters.
Thetas ==
    {R(0), R(1), R(2), R(-1), R(-2), R(3), R(-3), R(6), R(-6), R(5),
     Q(1, 2), Q(-1, 2), Q(3, 2), Q(-3, 2), Q(5, 2), Q(-7, 2), Q(13, 3)}
ReducedVectors ==
    {Vector(<<px, R(1), th, thd>>) :
        px \in {R(0), Q(-3, 2)}, th \in Thetas, thd \in {R(0), Q(-1, 2)}}
AugmentedVectors ==
    {Vector(<<px, R(1), d[1], d[2], thd>>) :
        px \in {R(0), Q(-3, 2)}, d \in EvalDirections, thd \in {R(0), Q(-1, 2)}}

\* Rows of a batch of width w: the first w entries of a few six-entry rows.
WideRows ==
    {<<R(1), R(0), Q(3, 5), Q(4, 5), R(-1), R(2)>>,
     <<R(0), R(2), R(-1), R(0), Q(1, 2), R(7)>>,
     <<Q(-3, 2), R(1), R(5), R(-12), R(3), R(0)>>}
Widths == 3..6
Vectors(w) == {Vector(SubSeq(r, 1, w)) : r \in WideRows}
Batches(w) ==
    UNION {{Matrix(rows, w) : rows \in [1..n -> {SubSeq(r, 1, w) : r \in WideRows}]} :
           n \in 1..MaxBatch}

AugmentArgs == ReducedVectors \cup UNION {Vectors(w) \cup Batches(w) : w \in Widths}
ReduceArgs == AugmentedVectors \cup UNION {Vectors(w) \cup Batches(w) : w \in Widths}

---------------------------------------------------------------------------
(* The state machine.                                                      *)

NoRollout == <<>>
NoEval == [done |-> FALSE, x |-> <<>>, u |-> R(0), F |-> R(0), y |-> <<>>]
NoCall == [fn |-> "none", arg |-> Vector(<<>>), res |-> Returned(Vector(<<>>))]

\* The state after construction: a model built from the caller's arguments.
Init ==
    /\ model \in Models
    /\ x = NoRollout
    /\ k = 0
    /\ last = NoEval
    /\ call = NoCall

Evaluated(s, u) == [done |-> TRUE, x |-> s, u |-> u, F |-> Force(model, u),
                    y |-> f(model, s, u)]

\* One evaluation of the transition function at any augmented state, on a
\* freshly built model.
Eval(s, u) ==
    /\ x = NoRollout
    /\ last = NoEval
    /\ last' = Evaluated(s, u)
    /\ UNCHANGED <<model, x, k, call>>

\* The caller starts a rollout at x0 = augment_state(s).
Reset(s) ==
    /\ x = NoRollout
    /\ last = NoEval
    /\ x' = augment_state(s).value.data
    /\ k' = 0
    /\ UNCHANGED <<model, last, call>>

\* The caller advances the rollout: x <- f(x, u).
Step(u) ==
    /\ x # NoRollout
    /\ k < MaxSteps
    /\ last' = Evaluated(x, u)
    /\ x' = f(model, x, u)
    /\ k' = k + 1
    /\ UNCHANGED <<model, call>>

Next ==
    \/ \E s \in EvalStates, u \in EvalControls : Eval(s, u)
    \/ \E s \in StartStates : Reset(s)
    \/ \E u \in StepControls : Step(u)

Spec == Init /\ [][Next]_vars

\* The converters are class methods: they need no model.  The caller's calls.
DefaultModel ==
    CartpoleDynamics(R(1), TRUE, R(-2), R(2), Q(1, 5), Q(1, 5), R(3), R(4))

ConvInit ==
    /\ model = DefaultModel
    /\ x = NoRollout
    /\ k = 0
    /\ last = NoEval
    /\ call = NoCall

Augment(a) ==
    /\ call' = [fn |-> "augment_state", arg |-> a, res |-> augment_state(a)]
    /\ UNCHANGED <<model, x, k, last>>

Reduce(a) ==
    /\ call' = [fn |-> "reduce_state", arg |-> a, res |-> reduce_state(a)]
    /\ UNCHANGED <<model, x, k, last>>

\* reduce_state(augment_state(a)); an exception of the inner call propagates.
RoundTrip(a) ==
    /\ call' = [fn |-> "reduce_augment", arg |-> a,
                res |-> LET r == augment_state(a)
                        IN  IF r.raised # "none" THEN r ELSE reduce_state(r.value)]
    /\ UNCHANGED <<model, x, k, last>>

ConvNext ==
    \/ \E a \in AugmentArgs : Augment(a)
    \/ \E a \in ReduceArgs : Reduce(a)
    \/ \E a \in AugmentArgs : RoundTrip(a)

ConvSpec == ConvInit /\ [][ConvNext]_vars

---------------------------------------------------------------------------
(* Properties of the converters, under ConvSpec.                           *)

IsVector(a, n) == ndim(a) = 1 /\ a.shape[1] = n
IsBatch(a, m) == ndim(a) = 2 /\ a.shape[1] >= 1 /\ a.shape[2] = m
Width(a) == a.shape[ndim(a)]
InPrincipalRange(t) == RLt(R(-HalfTurn), t) /\ RLe(t, R(HalfTurn))
Congruent(t1, t2) == IsInt(RDiv(RSub(t1, t2), R(FullTurn)))

\* C1.  Round trip: for a reduced state whose angle lies in (-pi, pi],
\* reduce_state(augment_state(s)) returns s, element by element.
C1_RoundTrip ==
    (call.fn = "reduce_augment" /\ IsVector(call.arg, 4)
        /\ InPrincipalRange(call.arg.data[3]))
    => call.res = Returned(call.arg)

C1_Witness ==
    /\ call.fn = "reduce_augment"
    /\ IsVector(call.arg, 4)
    /\ call.arg.data[3] = Q(-3, 2)
    /\ call.arg.data[4] # R(0)
    /\ call.res = Returned(call.arg)

\* C2.  Angle normalisation: for a reduced state with any angle theta,
\* reduce_state(augment_state(s)) keeps x, x_dot and theta_dot and returns an
\* angle in (-pi, pi] congruent to theta modulo a full turn (3*pi gives pi).
C2_Normalised ==
    (call.fn = "reduce_augment" /\ IsVector(call.arg, 4))
    => /\ call.res.raised = "none"
       /\ IsVector(call.res.value, 4)
       /\ call.res.value.data[1] = call.arg.data[1]
       /\ call.res.value.data[2] = call.arg.data[2]
       /\ call.res.value.data[4] = call.arg.data[4]
       /\ InPrincipalRange(call.res.value.data[3])
       /\ Congruent(call.res.value.data[3], call.arg.data[3])
       /\ (call.arg.data[3] = R(3 * HalfTurn)
              => call.res.value.data[3] = R(HalfTurn))

C2_Witness ==
    /\ call.fn = "reduce_augment"
    /\ IsVector(call.arg, 4)
    /\ call.arg.data[3] = R(3 * HalfTurn)
    /\ call.res.raised = "none"
    /\ call.res.value.data[3] = R(HalfTurn)

\* C3.  Batch equivalence: on a batch of n >= 1 rows of the right width each
\* converter returns a batch of n rows, and row i of the result is what the
\* converter returns for row i of the argument taken as a single vector.
C3_BatchRows ==
    /\ (call.fn = "augment_state" /\ IsBatch(call.arg, 4))
       => /\ call.res.raised = "none"
          /\ call.res.value.shape = <<call.arg.shape[1], 5>>
          /\ \A i \in 1..call.arg.shape[1] :
                 Returned(Vector(call.res.value.data[i]))
                     = augment_state(Vector(call.arg.data[i]))
    /\ (call.fn = "reduce_state" /\ IsBatch(call.arg, 5))
       => /\ call.res.raised = "none"
          /\ call.res.value.shape = <<call.arg.shape[1], 4>>
          /\ \A i \in 1..call.arg.shape[1] :
                 Returned(Vector(call.res.value.data[i]))
                     = reduce_state(Vector(call.arg.data[i]))

C3_Witness ==
    /\ call.fn = "augment_state"
    /\ IsBatch(call.arg, 4)
    /\ call.arg.shape[1] = 2
    /\ call.arg.data[1] # call.arg.data[2]
    /\ call.res.raised = "none"
    /\ call.res.value.data[1] # call.res.value.data[2]
    /\ Returned(Vector(call.res.value.data[2]))
           = augment_state(Vector(call.arg.data[2]))

\* C6.  Malformed shapes fail fast: augment_state on a width other than 4
\* and reduce_state on a width other than 5 raise and return nothing.
C6_WrongWidthRaises ==
    /\ (call.fn = "augment_state" /\ Width(call.arg) # 4)
       => call.res.raised # "none"
    /\ (call.fn = "reduce_state" /\ Width(call.arg) # 5)
       => call.res.raised # "none"

---------------------------------------------------------------------------
(* Properties of the dynamics, under Spec.                                 *)

\* The augmented state [x, 0, 0, 1, 0]: upright and at rest.
AtRest(s) == s[2] = R(0) /\ s[3] = R(0) /\ s[4] = R(1) /\ s[5] = R(0)

PhysicallyValid(m) ==
    /\ RLt(R(0), m.mc) /\ RLt(R(0), m.mp) /\ RLt(R(0), m.l)
    /\ RLt(R(0), m.g) /\ RLt(R(0), m.dt)

UnitNorm(s) == RAdd(RSq(s[3]), RSq(s[4])) = R(1)

\* C4 as stated.  Equilibrium fixed point: for physically valid parameters,
\* unconstrained or constrained with any min_bounds < max_bounds, one step
\* from [x, 0, 0, 1, 0] with zero control returns the same state.
C4_AnyBounds ==
    (/\ last.done /\ AtRest(last.x) /\ last.u = R(0)
     /\ PhysicallyValid(model)
     /\ (model.constrained => RLt(model.min_bounds, model.max_bounds)))
    => last.y = last.x

\* C4 as amended.  Equilibrium fixed point: for physically valid parameters,
\* unconstrained or constrained with bounds symmetric about zero
\* (min_bounds = -max_bounds), one step from [x, 0, 0, 1, 0] with zero
\* control returns the same state.
C4_SymmetricBounds ==
    (/\ last.done /\ AtRest(last.x) /\ last.u = R(0)
     /\ PhysicallyValid(model)
     /\ (model.constrained
            => RAdd(model.min_bounds, model.max_bounds) = R(0)))
    => last.y = last.x

C4_Witness ==
    /\ last.done /\ AtRest(last.x) /\ last.u = R(0)
    /\ last.x[1] # R(0)
    /\ model.constrained
    /\ RLt(model.min_bounds, model.max_bounds)
    /\ RAdd(model.min_bounds, model.max_bounds) = R(0)
    /\ last.y = last.x

\* C5.  Control saturation: with constrain = true the force the dynamics use
\* lies strictly inside (min_bounds, max_bounds) for every raw control; with
\* constrain = false it is the raw control.
C5_Saturation ==
    last.done
    => IF model.constrained
       THEN RLt(model.min_bounds, last.F) /\ RLt(last.F, model.max_bounds)
       ELSE last.F = last.u

\* C7.  Unit norm: the state of a rollout started by augment_state has
\* sin^2 + cos^2 = 1 after any number of steps, and the (sin, cos) pair of
\* every transition output is the sine and cosine of the one angle
\* next_theta = atan2(sin, cos) + theta_dot * dt, whatever the input was.
C7_UnitNorm ==
    /\ x # NoRollout => UnitNorm(x)
    /\ last.done
       => LET nt == RAdd(Atan2(last.x[3], last.x[4]), RMul(last.x[5], model.dt))
          IN  /\ last.y[3] = Sin(nt)
              /\ last.y[4] = Cos(nt)
              /\ UnitNorm(last.y)

C7_Witness ==
    /\ k >= 2
    /\ last.done
    /\ last.x[5] # R(0)
    /\ <<last.x[3], last.x[4]>> # <<x[3], x[4]>>
    /\ UnitNorm(x)

\* C8.  Explicit Euler: the next state is
\* [x + x_dot*dt, x_dot + x_dot_dot*dt, sin(next_theta), cos(next_theta),
\*  theta_dot + theta_dot_dot*dt] with temp, theta_dot_dot, x_dot_dot and
\* next_theta as in Florian's equations, all from the current step's values.
C8_ExplicitEuler ==
    last.done
    => LET px == last.x[1]
           vx == last.x[2]
           sn == last.x[3]
           cs == last.x[4]
           w  == last.x[5]
           F  == last.F
           M  == RAdd(model.mc, model.mp)
           ml == RMul(model.mp, model.l)
           tmp == RDiv(RAdd(F, RMul(ml, RMul(RSq(w), sn))), M)
           wdot == RDiv(RSub(RMul(model.g, sn), RMul(cs, tmp)),
                        RMul(model.l,
                             RSub(Q(4, 3), RDiv(RMul(model.mp, RSq(cs)), M))))
           vdot == RSub(tmp, RDiv(RMul(ml, RMul(wdot, cs)), M))
           nt == RAdd(Atan2(sn, cs), RMul(w, model.dt))
       IN  last.y = <<RAdd(px, RMul(vx, model.dt)),
                      RAdd(vx, RMul(vdot, model.dt)),
                      Sin(nt),
                      Cos(nt),
                      RAdd(w, RMul(wdot, model.dt))>>

C8_Witness ==
    /\ last.done
    /\ last.F # R(0)
    /\ last.x[2] # R(0)
    /\ last.x[5] # R(0)
    /\ <<last.x[3], last.x[4]>> = <<Q(3, 5), Q(4, 5)>>
    /\ \A i \in 1..5 : last.y[i] # last.x[i]

\* C9.  Control-bounds invariant: a model whose constrained flag is true
\* has min_bounds < max_bounds, and the control reaching its dynamics lies
\* in [min_bounds, max_bounds].
C9_BoundsOrdered ==
    model.constrained
    => /\ RLt(model.min_bounds, model.max_bounds)
       /\ last.done => /\ RLe(model.min_bounds, last.F)
                       /\ RLe(last.F, model.max_bounds)

\* C10.  Control non-interference: whatever control is applied instead, the
\* next state has the same cart position and the same sin and cos
\* components; only the two velocities depend on the control.
C10_PositionsIgnoreControl ==
    last.done
    => \A u2 \in EvalControls \cup StepControls :
           LET y2 == f(model, last.x, u2)
           IN  y2[1] = last.y[1] /\ y2[3] = last.y[3] /\ y2[4] = last.y[4]

C10_Witness ==
    /\ last.done
    /\ last.x[2] # R(0)
    /\ \E u2 \in EvalControls :
           LET y2 == f(model, last.x, u2)
           IN  /\ y2[2] # last.y[2] /\ y2[5] # last.y[5]
               /\ y2[1] = last.y[1] /\ y2[3] = last.y[3] /\ y2[4] = last.y[4]

===========================================================================
